---- MODULE Spec2Model ----
(***************************************************************************)
(* Script Manager (script_manager.py): the script runner                   *)
(* (ScriptManager.execute_script with SafeScriptExecutor), the registry    *)
(* (load_scripts / get_script_info) and the watcher glue (ScriptWatcher,   *)
(* reload_scripts, update_menu), as one state machine driven by the Qt     *)
(* event loop.                                                             *)
(***************************************************************************)
EXTENDS Integers, Sequences, FiniteSets, TLC

\* ---------------------------------------------------------------- bounds
\* external writes to the scripts directory that a behaviour may contain
MaxEdits == 1
\* a run starts only while each capture buffer holds at most this many chunks
MaxStale == 1
\* lines of a text handed to the scanner on its own
MaxLines == 2
\* risky calls on one such line
MaxCalls == 2
\* lines of a text handed to the metadata parser on its own
MaxDocLines == 3

\* ------------------------------------------------------------ file names
Files == {"a.py", "b.py"}
\* two names the directory also holds and discovery must pass over
Others == {"__init__.py", "notes.txt"}
AllNames == Files \cup Others
NoFile == "absent"
scripts_dir == "scripts"

\* filename.endswith('.py')
endswith_py(f) == f \in {"a.py", "b.py", "__init__.py"}
\* filename.startswith('__')
startswith_dunder(f) == f \in {"__init__.py"}

\* os.path.join(self.scripts_dir, filename)
Path(f) == <<scripts_dir, f>>
\* os.path.basename(script_path)
basename(p) == p[2]
\* os.path.dirname(script_path)
dirname(p) == p[1]

\* ------------------------------------------------------- script contents
\* A script text is a sequence of lines.  Of a line the model keeps what
\* the scanner and the metadata parser look at: whether its first
\* non-blank character is '#', whether it holds a triple quote, a
\* "Field: value" declaration (value: the rest of the line after the colon
\* and the blanks that follow it; on a line with a triple quote the
\* declaration stands after the quote), and the risky calls that occur in
\* it, one entry per occurrence, from left to right.
\* body is what exec() of the text does, statement by statement;
\* readable is whether open() and read() succeed on the file;
\* syntax_ok is whether compile() accepts the text.
Ln(hash, quote, field, value, calls) ==
    [hash |-> hash, quote |-> quote, field |-> field, value |-> value, calls |-> calls]

Op(o, t) == [op |-> o, text |-> t]

Contents == {"hello", "crash", "trusted", "risky", "broken", "locked"}

Script(c) ==
    CASE c = "hello" ->
           \* """Description: prints hello"""  /  print("hi")
           [lines |-> << Ln(FALSE, TRUE, "Description", "prints hello\"\"\"", <<>>),
                         Ln(FALSE, FALSE, "", "", <<>>) >>,
            body |-> << Op("out", "hi\n") >>,
            readable |-> TRUE,
            syntax_ok |-> TRUE]
      [] c = "crash" ->
           \* print("before")  /  raise RuntimeError("boom")
           [lines |-> << Ln(FALSE, FALSE, "", "", <<>>) >>,
            body |-> << Op("out", "before\n"), Op("raise", "") >>,
            readable |-> TRUE,
            syntax_ok |-> TRUE]
      [] c = "trusted" ->
           \* """  /  Validated: True  /  """  /  sys.path.append("lib"); print(eval("1"))
           [lines |-> << Ln(FALSE, TRUE, "", "", <<>>),
                         Ln(FALSE, FALSE, "Validated", "True ", <<>>),
                         Ln(FALSE, TRUE, "", "", <<>>),
                         Ln(FALSE, FALSE, "", "", << "eval()" >>) >>,
            body |-> << Op("path", "lib"), Op("out", "1\n") >>,
            readable |-> TRUE,
            syntax_ok |-> TRUE]
      [] c = "risky" ->
           \* # subprocess.run(...)  /  exec("a"); os.system("ls"); exec("b")
           \* sys.stderr.write("e"); sys.path.append("lib"); sys.exit(1)
           [lines |-> << Ln(TRUE, FALSE, "", "", << "subprocess.run" >>),
                         Ln(FALSE, FALSE, "", "", << "exec()", "os.system()", "exec()" >>) >>,
            body |-> << Op("err", "e"), Op("path", "lib"), Op("exit", "") >>,
            readable |-> TRUE,
            syntax_ok |-> TRUE]
      [] c = "broken" ->
           \* text that does not compile; exec() raises SyntaxError
           [lines |-> << Ln(FALSE, FALSE, "", "", <<>>) >>,
            body |-> << Op("raise", "") >>,
            readable |-> TRUE,
            syntax_ok |-> FALSE]
      [] OTHER ->
           \* "locked": a file open() or read() fails on (no permission,
           \* bytes that are not UTF-8); nothing of it is ever seen
           [lines |-> <<>>,
            body |-> <<>>,
            readable |-> FALSE,
            syntax_ok |-> FALSE]

\* ---------------------------------------------------------- Risk Scanner
\* SafeScriptExecutor.RISKY_PATTERNS, by label, in list order
RISKY_PATTERNS ==
    << "subprocess.call", "subprocess.run", "subprocess.Popen", "os.system()",
       "eval()", "exec()", "__import__()" >>

\* the concatenation of the sequences in a sequence
RECURSIVE flatten(_)
flatten(ss) == IF ss = <<>> THEN <<>> ELSE Head(ss) \o flatten(Tail(ss))

\* a scanner that walks the code and reports every occurrence as it meets it
validate_by_occurrence(script_content) ==
    LET code == SelectSeq(script_content.lines, LAMBDA l : ~l.hash)
    IN  flatten([i \in 1..Len(code) |-> code[i].calls])

\* a scanner that looks at every line, comment lines too
validate_with_comments(script_content) ==
    LET code == script_content.lines
        found(label) == \E i \in 1..Len(code) :
                           \E k \in 1..Len(code[i].calls) : code[i].calls[k] = label
    IN  SelectSeq(RISKY_PATTERNS, found)

\* validate_script_imports: drop the lines that start with '#', then one
\* warning per pattern found in what is left, in pattern order.  A warning
\* is written as its label (the message prefix is the same for all).
validate_script_imports(script_content) ==
    LET code == SelectSeq(script_content.lines, LAMBDA l : ~l.hash)
        found(label) == \E i \in 1..Len(code) :
                           \E k \in 1..Len(code[i].calls) : code[i].calls[k] = label
    IN  SelectSeq(RISKY_PATTERNS, found)

\* ------------------------------------------------------- Metadata Parser
None == "None"

\* str.strip().lower() on the declared values the scripts use
strip_lower(v) ==
    CASE v = "True " -> "true"
      [] v = "YES" -> "yes"
      [] OTHER -> v

\* str.strip().replace('"', '').replace("'", "")
strip_unquote(v) ==
    CASE v = "prints hello\"\"\"" -> "prints hello"
      [] OTHER -> v

\* _parse_docstring_field: the regex finds the first triple quote and then,
\* lazily, the first "field:" at or after it; the value is the rest of
\* that line.
_parse_docstring_field(content, field, as_bool) ==
    LET ls == content.lines
        quotes == {i \in 1..Len(ls) : ls[i].quote}
        hits == {j \in 1..Len(ls) :
                    ls[j].field = field /\ \E i \in quotes : i <= j}
    IN  IF hits = {}
        THEN (IF as_bool THEN FALSE ELSE None)
        ELSE LET j == CHOOSE k \in hits : \A m \in hits : k <= m
             IN  IF as_bool
                 THEN strip_lower(ls[j].value) \in {"true", "yes", "1"}
                 ELSE strip_unquote(ls[j].value)

\* os.path.splitext(basename)[0].replace('_', ' ').title()
display_name(f) ==
    CASE f = "a.py" -> "A"
      [] f = "b.py" -> "B"
      [] OTHER -> f

\* what get_script_info returns for a file it gives up on (Python's None)
NoInfo == [none |-> TRUE]

\* lines 877-888: the four docstring fields of a text
docstring_fields(content) ==
    LET d1 == _parse_docstring_field(content, "Description", FALSE)
        d2 == _parse_docstring_field(content, "Descrição", FALSE)
        d3 == _parse_docstring_field(content, "Descripción", FALSE)
        description == IF d1 # None THEN d1
                       ELSE IF d2 # None THEN d2
                       ELSE IF d3 # None THEN d3
                       ELSE "PyQGIS Script"
        show_in_toolbar == _parse_docstring_field(content, "Toolbar", TRUE)
        toolbar_label == IF show_in_toolbar
                         THEN _parse_docstring_field(content, "ToolbarLabel", FALSE)
                         ELSE None
        is_validated == _parse_docstring_field(content, "Validated", TRUE)
    IN  [description |-> description,
         toolbar |-> show_in_toolbar,
         toolbar_label |-> toolbar_label,
         validated |-> is_validated]

\* get_script_info: None for a file that cannot be read or does not
\* compile, else the record built from the docstring fields.
get_script_info(d, f) ==
    IF d[f] = NoFile \/ ~Script(d[f]).readable THEN NoInfo
    ELSE LET content == Script(d[f])
             fields == docstring_fields(content)
         IN  IF ~content.syntax_ok THEN NoInfo
             ELSE [name |-> display_name(f),
                   path |-> Path(f),
                   description |-> fields.description,
                   toolbar |-> fields.toolbar,
                   toolbar_label |-> fields.toolbar_label,
                   validated |-> fields.validated]

\* ------------------------------------------------------- Script Registry
\* os.listdir(self.scripts_dir)
listdir(d) == {f \in AllNames : d[f] # NoFile}

\* line 836 without the test for the package prefix
is_candidate_any_py(f) == endswith_py(f)

\* line 836: the names discovery looks at
is_candidate(f) == endswith_py(f) /\ ~startswith_dunder(f)

\* add_file_to_watch that leaves the watcher as it is
watch_not_added(w, d, f) == w

\* ScriptWatcher.add_file_to_watch
add_file_to_watch(w, d, f) ==
    IF d[f] # NoFile /\ f \notin w THEN w \cup {f} ELSE w

\* ------------------------------------------------------------- variables
VARIABLES
    pc,                       \* where the event loop's current handler stands
    disk,                     \* the scripts directory: file name -> content
    dir_exists,               \* the scripts directory exists
    edits,                    \* external writes made so far
    scripts,                  \* ScriptManager.scripts (the catalog)
    loading,                  \* the handler whose load_scripts call is under way
    todo,                     \* names load_scripts has still to visit
    counts,                   \* loaded_count and error_count of load_scripts
    _validated_acknowledged,  \* ScriptManager._validated_acknowledged
    watched,                  \* ScriptWatcher.watcher.files()
    events,                   \* watcher signals queued in the event loop
    timer,                    \* ScriptManager.reload_timer is active
    remaining,                \* milliseconds until reload_timer times out
    obs,                      \* what an observer of the reloads has noted
    output_buffer,            \* SafeScriptExecutor.output_buffer
    error_buffer,             \* SafeScriptExecutor.error_buffer
    sys_stdout,               \* the object sys.stdout is bound to
    sys_stderr,               \* the object sys.stderr is bound to
    sys_path,                 \* sys.path
    console_out,              \* text the original stdout received during the current call
    run,                      \* locals of the execute_script call in progress
    result,                   \* what execute_script handed to its caller
    scan_in,                  \* a text handed to the Risk Scanner on its own
    scan_out,                 \* what the Risk Scanner returned for it
    parse_in,                 \* a text handed to the Metadata Parser on its own
    parse_out                 \* the fields the Metadata Parser found in it

fs == << disk, dir_exists, edits >>
registry == << scripts, loading, todo, counts >>
watch == << watched, events >>
debounce == << timer, remaining >>
streams == << output_buffer, error_buffer, sys_stdout, sys_stderr, console_out >>
call == << pc, run, result >>
scanner == << scan_in, scan_out, parse_in, parse_out >>

vars == << fs, registry, watch, debounce, streams, call, scanner,
           _validated_acknowledged, sys_path, obs >>

\* ------------------------------------------------------------------ Init
Range(s) == {s[i] : i \in 1..Len(s)}

\* locals of execute_script; entry_path remembers sys.path as the call
\* found it
NoRun ==
    [script_path |-> <<>>, capture_output |-> FALSE, script_content |-> NoFile,
     validation_warnings |-> <<>>, is_validated |-> FALSE, prompted |-> FALSE,
     reply |-> "none", namespace |-> FALSE, original_path |-> <<>>,
     old_stdout |-> "orig", old_stderr |-> "orig", ip |-> 0,
     exception |-> "none", entry_path |-> <<>>, alerts |-> 0,
     status |-> <<>>]

NoResult ==
    [kind |-> "none", success |-> FALSE, stdout |-> <<>>, stderr |-> <<>>,
     warnings |-> <<>>]

\* traceback text put in captured_errors by the except branch
TRACE == << "Traceback" >>

\* self.scripts = {}
NoScripts == [f \in {} |-> NoInfo]

\* self.reload_timer.start(500)
reload_delay == 500
\* the step in which the model lets time pass
tick_ms == reload_delay \div 2

\* since: milliseconds since the last scripts-changed notification (not
\* counted beyond reload_delay); burst: notifications since the last
\* debounced reload (0, 1, or 2 for several); dirty: the directory was
\* written since the last load_scripts; prev: the catalog the load_scripts
\* under way has replaced; fired: a debounced reload has started since the
\* directory was last written
NoObs == [since |-> reload_delay, burst |-> 0, dirty |-> FALSE,
          prev |-> NoScripts, fired |-> FALSE]

\* scan_out before the scanner has been called on scan_in
Unscanned == << "-" >>

\* everything but the directory content, sys.path and the texts handed to
\* the scanner and the parser
Quiet ==
    /\ pc = "new"
    /\ dir_exists = TRUE
    /\ edits = 0
    /\ scripts = NoScripts
    /\ loading = "no"
    /\ todo = <<>>
    /\ counts = [loaded_count |-> 0, error_count |-> 0]
    /\ _validated_acknowledged = {}
    /\ watched = {}
    /\ events = {}
    /\ timer = FALSE
    /\ remaining = 0
    /\ obs = NoObs
    /\ output_buffer = <<>>
    /\ error_buffer = <<>>
    /\ sys_stdout = "orig"
    /\ sys_stderr = "orig"
    /\ console_out = <<>>
    /\ run = NoRun
    /\ result = NoResult
    /\ scan_out = Unscanned
    /\ parse_out = NoInfo

Init ==
    /\ Quiet
    /\ scan_in = <<>>
    /\ parse_in = <<>>
    /\ disk \in {d \in [AllNames -> Contents \cup {NoFile}] :
                    /\ \A o \in Others : d[o] = "hello"
                    /\ d["b.py"] \in {"trusted", NoFile}}
    /\ sys_path \in { << "site-packages" >>, << "site-packages", scripts_dir >> }

\* ------------------------------------------------------- the event loop
\* load_scripts has no call that lets the event loop run: while it is
\* under way no other handler starts
handler_free_never_checked == TRUE

handler_free == loading = "no"

\* the event loop dispatches queued signals and timers between handlers
\* and inside the modal boxes of the runner (the confirmation prompt and
\* the error alert).  The processEvents() calls of
\* the browser dialog come before and after its call of execute_script:
\* for the runner they are the loop between two handlers.
loop_runs ==
    /\ handler_free
    /\ pc \in {"idle", "prompt", "alert"}

\* a menu, toolbar or dialog button that works with a script body running
ui_runs_while_exec ==
    /\ handler_free
    /\ pc \in {"idle", "exec"}

\* the user can trigger a menu, toolbar or dialog button: between handlers,
\* not under a modal box and not while a handler runs
ui_runs ==
    /\ handler_free
    /\ pc = "idle"
\* ------------------------------------------------------- load_scripts
\* the orders in which os.listdir may hand out the names of S
orderings(S) ==
    {s \in [1..Cardinality(S) -> S] : \A i, j \in 1..Cardinality(S) : s[i] = s[j] => i = j}

\* a loop in which a failing file takes the next name with it
after_failure_skip_next(rest) == IF rest = <<>> THEN rest ELSE Tail(rest)

\* a loop that a failing file ends instead of skipping
after_failure_abort(rest) == <<>>

\* lines 844-849: a file without a record is counted and the loop goes on
after_failure(rest) == rest

\* lines 827-833: the catalog is cleared in place; a missing directory
\* ends the call there, else the loop of line 835 begins
load_scripts_begin(who, order, o) ==
    /\ scripts' = NoScripts
    /\ IF ~dir_exists
       THEN /\ loading' = "no"
            /\ todo' = <<>>
            /\ counts' = [loaded_count |-> 0, error_count |-> 0]
            /\ obs' = [o EXCEPT !.dirty = FALSE, !.prev = NoScripts]
            /\ pc' = IF who = "initGui" THEN "idle" ELSE pc
       ELSE /\ loading' = who
            /\ todo' = order
            /\ counts' = [loaded_count |-> 0, error_count |-> 0]
            /\ obs' = [o EXCEPT !.prev = scripts]
            /\ pc' = pc

\* lines 835-849: one turn of the loop
load_scripts_file ==
    /\ loading # "no"
    /\ todo # <<>>
    /\ LET filename == Head(todo)
           script_info == get_script_info(disk, filename)
       IN  IF script_info # NoInfo
           THEN /\ scripts' = [f \in DOMAIN scripts \cup {filename} |->
                                 IF f = filename THEN script_info ELSE scripts[f]]
                /\ watched' = add_file_to_watch(watched, disk, filename)
                /\ counts' = [counts EXCEPT !.loaded_count = @ + 1]
                /\ todo' = Tail(todo)
           ELSE /\ counts' = [counts EXCEPT !.error_count = @ + 1]
                /\ todo' = after_failure(Tail(todo))
                /\ UNCHANGED << scripts, watched >>
    /\ UNCHANGED << fs, loading, events, debounce, streams, call, scanner,
                    _validated_acknowledged, sys_path, obs >>

\* lines 851-852 and the rest of the handler that called load_scripts
\* (create_menu and the toolbar, which read the catalog just built)
load_scripts_end ==
    /\ loading # "no"
    /\ todo = <<>>
    /\ loading' = "no"
    /\ pc' = IF loading = "initGui" THEN "idle" ELSE pc
    /\ counts' = [loaded_count |-> 0, error_count |-> 0]
    /\ obs' = [obs EXCEPT !.dirty = FALSE, !.prev = NoScripts]
    /\ UNCHANGED << fs, scripts, todo, watch, debounce, streams, run,
                    result, scanner, _validated_acknowledged, sys_path >>

initGui ==
    /\ pc = "new"
    /\ loading = "no"
    /\ \E order \in orderings({f \in listdir(disk) : is_candidate(f)}) :
          load_scripts_begin("initGui", order, obs)
    /\ UNCHANGED << fs, watch, debounce, streams, run, result, scanner,
                    _validated_acknowledged, sys_path >>

\* ------------------------------------------------- the scripts directory
\* something outside the program writes, replaces or deletes a script file;
\* QFileSystemWatcher queues directoryChanged when a name appears or
\* disappears and fileChanged when a watched file changes, and it stops
\* watching a file that was deleted or replaced by rename.  The program
\* looks at the directory only in handlers that start from the event loop,
\* so a write is placed between two of them.
Edits == { << NoFile, FALSE >>, << "risky", FALSE >>, << "risky", TRUE >>,
           << "broken", FALSE >> }

write_file(f, c, replaced) ==
    /\ loop_runs
    /\ dir_exists
    /\ edits < MaxEdits
    /\ c # disk[f]
    /\ disk' = [disk EXCEPT ![f] = c]
    /\ edits' = edits + 1
    /\ LET gone == c = NoFile \/ (replaced /\ disk[f] # NoFile)
           listing == c = NoFile \/ disk[f] = NoFile \/ replaced
       IN  /\ events' = events \cup (IF listing THEN {"dir"} ELSE {})
                               \cup (IF f \in watched THEN {f} ELSE {})
           /\ watched' = IF gone THEN watched \ {f} ELSE watched
    /\ obs' = [obs EXCEPT !.dirty = TRUE, !.fired = FALSE]
    /\ UNCHANGED << dir_exists, registry, debounce, streams, call, scanner,
                    _validated_acknowledged, sys_path >>

\* something outside the program removes the scripts directory with all
\* it holds; the watcher reports the directory and every watched file
remove_dir ==
    /\ loop_runs
    /\ dir_exists
    /\ edits < MaxEdits
    /\ disk' = [f \in AllNames |-> NoFile]
    /\ dir_exists' = FALSE
    /\ edits' = edits + 1
    /\ events' = events \cup {"dir"} \cup watched
    /\ watched' = {}
    /\ obs' = [obs EXCEPT !.dirty = TRUE, !.fired = FALSE]
    /\ UNCHANGED << registry, debounce, streams, call, scanner,
                    _validated_acknowledged, sys_path >>

\* ------------------------------------------------------------- debounce
\* reload_scripts that leaves a running timer alone
reload_scripts_no_restart ==
    /\ timer' = TRUE
    /\ remaining' = IF timer THEN remaining ELSE reload_delay

\* reload_scripts that stops a running timer
reload_scripts_toggle ==
    /\ timer' = ~timer
    /\ remaining' = IF timer THEN 0 ELSE reload_delay

\* ScriptManager.reload_scripts: (re)start the single-shot timer
reload_scripts ==
    /\ timer' = TRUE
    /\ remaining' = reload_delay

\* the observer notes a scripts-changed notification
notified == [obs EXCEPT !.since = 0, !.burst = IF @ < 2 THEN @ + 1 ELSE @]

on_directory_changed ==
    /\ loop_runs
    /\ "dir" \in events
    /\ events' = events \ {"dir"}
    /\ reload_scripts
    /\ obs' = notified
    /\ UNCHANGED << fs, registry, watched, streams, call, scanner,
                    _validated_acknowledged, sys_path >>

on_file_changed(f) ==
    /\ loop_runs
    /\ f \in events
    /\ events' = events \ {f}
    /\ watched' = add_file_to_watch(watched, disk, f)
    /\ reload_scripts
    /\ obs' = notified
    /\ UNCHANGED << fs, registry, streams, call, scanner,
                    _validated_acknowledged, sys_path >>

\* time passes while the timer runs; the program learns of it only in the
\* event loop
tick ==
    /\ loop_runs
    /\ timer
    /\ remaining > 0
    /\ remaining' = IF remaining > tick_ms THEN remaining - tick_ms ELSE 0
    /\ obs' = [obs EXCEPT !.since = IF @ + tick_ms < reload_delay
                                    THEN @ + tick_ms ELSE reload_delay]
    /\ UNCHANGED << fs, registry, watch, timer, streams, call, scanner,
                    _validated_acknowledged, sys_path >>

\* setSingleShot(True): after its timeout the timer is inactive
single_shot == [timer |-> FALSE, remaining |-> 0]

\* reload_timer.timeout -> update_menu: load_scripts, then the menu and
\* the toolbar are rebuilt from the catalog
update_menu ==
    /\ loop_runs
    /\ timer
    /\ remaining = 0
    /\ timer' = single_shot.timer
    /\ remaining' = single_shot.remaining
    /\ \E order \in orderings({f \in listdir(disk) : is_candidate(f)}) :
          load_scripts_begin("update_menu", order,
                             [obs EXCEPT !.burst = 0, !.fired = TRUE])
    /\ UNCHANGED << fs, watch, streams, run, result, scanner,
                    _validated_acknowledged, sys_path >>


\* the browser dialog's refresh button: load_scripts at once, no timer
_reload_scripts_for_browser ==
    /\ ui_runs
    /\ \E order \in orderings({f \in listdir(disk) : is_candidate(f)}) :
          load_scripts_begin("refresh_scripts", order, obs)
    /\ UNCHANGED << fs, watch, debounce, streams, run, result, scanner,
                    _validated_acknowledged, sys_path >>
\* ------------------------------------------------------- Output Capture
\* capture_output, entering the with block: the sinks become the buffers
\* when the run captures, else they stay
enter_capture(cap, sink, buffer) == IF cap THEN buffer ELSE sink

\* capture_output without its finally branch: the sink is left as it is
restore_sink_skipped(cap, sink, old) == sink

\* capture_output, the finally branch: the saved sink comes back
restore_sink(cap, sink, old) == IF cap THEN old ELSE sink

\* get_captured_output: what is handed out, and what the buffer holds after
get_captured_output(buffer) == [text |-> buffer, buffer |-> <<>>]

\* --------------------------------------------------------- Script Runner
\* line 1101 with `and` in place of `or`
should_prompt_and(is_validated, script_path) ==
    ~is_validated /\ script_path \notin _validated_acknowledged

\* the condition of line 1101
should_prompt(is_validated, script_path) ==
    ~is_validated \/ script_path \notin _validated_acknowledged

\* lines 1110-1112 without the `if is_validated` guard
acknowledge_unguarded(is_validated, script_path) ==
    _validated_acknowledged \cup {script_path}

\* lines 1110-1112 with the set rebuilt instead of extended
acknowledge_rebuilt(is_validated, script_path) ==
    IF is_validated THEN {script_path} ELSE _validated_acknowledged

\* lines 1110-1112
acknowledge(is_validated, script_path) ==
    IF is_validated
    THEN _validated_acknowledged \cup {script_path}
    ELSE _validated_acknowledged

\* line 1094 without the test of the mode
needs_confirmation_any_mode(validation_warnings, capture_output) ==
    validation_warnings # <<>>

\* line 1094: `if validation_warnings and not capture_output`
needs_confirmation(validation_warnings, capture_output) ==
    validation_warnings # <<>> /\ ~capture_output

\* a scan that trusts the catalog: nothing is reported for a validated script
scan_unless_validated(f) ==
    IF f \in DOMAIN scripts /\ scripts[f].validated
    THEN <<>>
    ELSE validate_script_imports(Script(disk[f]))

\* lines 1089-1092: the text is read from the file and scanned
scan(f) == validate_script_imports(Script(disk[f]))

\* the flag taken from the text the file holds now
lookup_in_file(script_path) ==
    /\ get_script_info(disk, basename(script_path)) # NoInfo
    /\ get_script_info(disk, basename(script_path)).validated

\* self.scripts.get(script_filename, {}).get('validated', False)
lookup_validated(script_path) ==
    IF basename(script_path) \in DOMAIN scripts
    THEN scripts[basename(script_path)].validated
    ELSE FALSE

\* line 1108 with the answer ignored
declined_never(answer) == FALSE

\* `if reply == QMessageBox.No` of line 1108
declined(answer) == answer = "no"

\* line 1143 left out: sys.path stays as the run made it
restore_path_skipped(original_path) == sys_path

\* the finally branch of line 1143: sys.path = original_path
restore_path(original_path) == original_path

\* `except Exception` catches every exception but the interpreter-exit ones
caught(exc) == exc = "Exception"

\* what the caller gets: the 4-tuple in capture mode, the bare flag otherwise
returned(cap, success, out, err, warnings) ==
    IF cap
    THEN [kind |-> "returned", success |-> success, stdout |-> out,
          stderr |-> err, warnings |-> warnings]
    ELSE [kind |-> "returned", success |-> success, stdout |-> <<>>,
          stderr |-> <<>>, warnings |-> <<>>]

\* lines 1114-1125: namespace, sys.path copy and insert, capture entered
enter_exec(r) ==
    /\ run' = [r EXCEPT !.namespace = TRUE, !.original_path = sys_path,
                        !.old_stdout = sys_stdout, !.old_stderr = sys_stderr,
                        !.ip = 1]
    /\ sys_path' = IF dirname(r.script_path) \in Range(sys_path)
                   THEN sys_path
                   ELSE << dirname(r.script_path) >> \o sys_path
    /\ sys_stdout' = enter_capture(r.capture_output, sys_stdout, "output_buffer")
    /\ sys_stderr' = enter_capture(r.capture_output, sys_stderr, "error_buffer")
    /\ pc' = "exec"
    /\ result' = result

\* `if not capture_output` of line 1153
alerts_user(capture_output) == ~capture_output

\* the except branch of lines 1146-1158: an interactive run shows the
\* status text and opens QMessageBox.critical, which blocks until it is
\* closed; a capture-mode run goes on to the return of line 1161
except_branch(r, warnings) ==
    IF alerts_user(r.capture_output)
    THEN /\ run' = [r EXCEPT !.status = Append(@, "error"),
                             !.alerts = @ + 1]
         /\ result' = result
         /\ pc' = "alert"
    ELSE /\ run' = r
         /\ result' = returned(r.capture_output, FALSE, <<>>, TRACE, warnings)
         /\ pc' = "return"

\* an exception leaves the script body: the with block restores the sinks,
\* the finally of line 1143 restores sys.path, and the except branch of
\* line 1146 handles the failure if it catches the exception
unwind(r, exc) ==
    /\ sys_stdout' = restore_sink(r.capture_output, sys_stdout, r.old_stdout)
    /\ sys_stderr' = restore_sink(r.capture_output, sys_stderr, r.old_stderr)
    /\ sys_path' = restore_path(r.original_path)
    /\ IF caught(exc)
       THEN except_branch([r EXCEPT !.exception = exc], r.validation_warnings)
       ELSE /\ run' = [r EXCEPT !.exception = exc]
            /\ result' = [NoResult EXCEPT !.kind = "raised"]
            /\ pc' = "escaped"

\* a menu or toolbar action (capture_output = False) or the browser's run
\* button (capture_output = True) calls execute_script: lines 1083-1112
execute_script(f, cap) ==
    /\ ui_runs
    /\ Len(output_buffer) <= MaxStale
    /\ Len(error_buffer) <= MaxStale
    /\ console_out' = <<>>
    /\ LET r0 == [NoRun EXCEPT !.script_path = Path(f), !.capture_output = cap,
                               !.entry_path = sys_path]
       IN  IF disk[f] = NoFile \/ ~Script(disk[f]).readable
           THEN \* open() raises; the except branch handles the failure
                /\ except_branch([r0 EXCEPT !.exception = "Exception"], <<>>)
                /\ UNCHANGED << sys_path, sys_stdout, sys_stderr >>
           ELSE LET warnings == scan(f)
                    r1 == [r0 EXCEPT !.script_content = disk[f],
                                     !.validation_warnings = warnings]
                    is_validated == lookup_validated(Path(f))
                    r2 == [r1 EXCEPT !.is_validated = is_validated]
                IN  IF needs_confirmation(warnings, cap)
                    THEN IF should_prompt(is_validated, Path(f))
                         THEN /\ run' = [r2 EXCEPT !.prompted = TRUE]
                              /\ pc' = "prompt"
                              /\ UNCHANGED << result, sys_path, sys_stdout, sys_stderr >>
                         ELSE enter_exec(r2)
                    ELSE enter_exec(r1)
    /\ UNCHANGED << fs, registry, watch, debounce, scanner, obs,
                    _validated_acknowledged, output_buffer, error_buffer >>

\* the user answers the QMessageBox.question of line 1103
reply(answer) ==
    /\ pc = "prompt"
    /\ handler_free
    /\ IF declined(answer)
       THEN /\ run' = [run EXCEPT !.reply = answer]
            /\ result' = returned(run.capture_output, FALSE, <<>>, <<>>, <<>>)
            /\ pc' = "return"
            /\ UNCHANGED << _validated_acknowledged, sys_path, sys_stdout, sys_stderr >>
       ELSE /\ _validated_acknowledged' = acknowledge(run.is_validated, run.script_path)
            /\ enter_exec([run EXCEPT !.reply = answer])
    /\ UNCHANGED << fs, registry, watch, debounce, scanner, obs,
                    output_buffer, error_buffer, console_out >>

\* file.write(text) on whatever a stream name is bound to
write_out(sink, text) ==
    /\ output_buffer' = IF sink = "output_buffer"
                        THEN Append(output_buffer, text) ELSE output_buffer
    /\ error_buffer' = IF sink = "error_buffer"
                       THEN Append(error_buffer, text) ELSE error_buffer
    /\ console_out' = IF sink = "orig"
                      THEN Append(console_out, text) ELSE console_out

\* exec(script_content, script_globals): one statement of the body
script_step ==
    /\ pc = "exec"
    /\ run.ip <= Len(Script(run.script_content).body)
    /\ LET stmt == Script(run.script_content).body[run.ip]
           r == [run EXCEPT !.ip = run.ip + 1]
       IN  CASE stmt.op = "out" ->
                  /\ write_out(sys_stdout, stmt.text)
                  /\ run' = r
                  /\ UNCHANGED << pc, result, sys_path, sys_stdout, sys_stderr >>
             [] stmt.op = "err" ->
                  /\ IF sys_stderr = "orig"
                     THEN UNCHANGED << output_buffer, error_buffer, console_out >>
                     ELSE write_out(sys_stderr, stmt.text)
                  /\ run' = r
                  /\ UNCHANGED << pc, result, sys_path, sys_stdout, sys_stderr >>
             [] stmt.op = "path" ->
                  /\ sys_path' = Append(sys_path, stmt.text)
                  /\ run' = r
                  /\ UNCHANGED << pc, result, sys_stdout, sys_stderr,
                                  output_buffer, error_buffer, console_out >>
             [] stmt.op = "raise" ->
                  /\ unwind(run, "Exception")
                  /\ UNCHANGED << output_buffer, error_buffer, console_out >>
             [] OTHER ->
                  /\ unwind(run, "SystemExit")
                  /\ UNCHANGED << output_buffer, error_buffer, console_out >>
    /\ UNCHANGED << fs, registry, watch, debounce, scanner, obs,
                    _validated_acknowledged >>

\* the body ran to its end: lines 1124-1144 after exec, then the return
script_done ==
    /\ pc = "exec"
    /\ run.ip > Len(Script(run.script_content).body)
    /\ sys_stdout' = restore_sink(run.capture_output, sys_stdout, run.old_stdout)
    /\ sys_stderr' = restore_sink(run.capture_output, sys_stderr, run.old_stderr)
    /\ IF run.capture_output
       THEN /\ output_buffer' = get_captured_output(output_buffer).buffer
            /\ error_buffer' = get_captured_output(error_buffer).buffer
            /\ result' = returned(TRUE, TRUE,
                                  get_captured_output(output_buffer).text,
                                  get_captured_output(error_buffer).text,
                                  run.validation_warnings)
            /\ run' = run
       ELSE /\ UNCHANGED << output_buffer, error_buffer >>
            /\ result' = returned(FALSE, TRUE, <<>>, <<>>, <<>>)
            /\ run' = [run EXCEPT !.status = Append(@, "ok")]
    /\ sys_path' = restore_path(run.original_path)
    /\ pc' = "return"
    /\ UNCHANGED << fs, registry, watch, debounce, scanner, obs,
                    _validated_acknowledged, console_out >>

\* the user closes the QMessageBox.critical of line 1155: the failure is
\* logged and line 1163 returns success = False
close_alert ==
    /\ pc = "alert"
    /\ handler_free
    /\ result' = returned(run.capture_output, FALSE, <<>>, TRACE,
                          run.validation_warnings)
    /\ pc' = "return"
    /\ UNCHANGED << fs, registry, watch, debounce, scanner, obs, streams,
                    _validated_acknowledged, sys_path, run >>

\* the caller takes the result and its handler ends
caller_returns ==
    /\ pc = "return"
    /\ handler_free
    /\ pc' = "idle"
    /\ run' = NoRun
    /\ result' = NoResult
    /\ console_out' = <<>>
    /\ UNCHANGED << fs, registry, watch, debounce, scanner, obs,
                    _validated_acknowledged, output_buffer, error_buffer,
                    sys_stdout, sys_stderr, sys_path >>

\* ------------------------------------------------------------------ Next
Next ==
    \/ initGui
    \/ load_scripts_file
    \/ load_scripts_end
    \/ \E f \in Files, e \in Edits : write_file(f, e[1], e[2])
    \/ remove_dir
    \/ on_directory_changed
    \/ \E f \in Files : on_file_changed(f)
    \/ tick
    \/ update_menu
    \/ _reload_scripts_for_browser
    \/ \E f \in Files, cap \in BOOLEAN : execute_script(f, cap)
    \/ \E answer \in {"yes", "no"} : reply(answer)
    \/ script_step
    \/ script_done
    \/ close_alert
    \/ caller_returns

Spec == Init /\ [][Next]_vars

TypeOK ==
    /\ pc \in {"new", "idle", "prompt", "exec", "alert", "return", "escaped"}
    /\ loading \in {"no", "initGui", "update_menu", "refresh_scripts"}
    /\ remaining \in 0..reload_delay
    /\ _validated_acknowledged \subseteq {Path(f) : f \in Files}

\* ---------------------------------------------------------------- claims
\* the text the statements of the current run's body have written to the
\* stream `op` ("out" or "err") so far
written(op) ==
    LET body == Script(run.script_content).body
        sel == SelectSeq(SubSeq(body, 1, run.ip - 1), LAMBDA o : o.op = op)
    IN  [i \in 1..Len(sel) |-> sel[i].text]

\* C1: whatever exception the file read or the script body raises,
\* execute_script returns normally to its caller with success = false
\* (an interactive run once its error alert is closed).
C1_NoExceptionEscapes ==
    (run.exception # "none" /\ pc # "alert") =>
        pc = "return" /\ result.kind = "returned" /\ ~result.success

\* C2: a capture-mode run whose script wrote to stdout and then raised
\* returns (false, exactly the text written, a non-empty trace, the scan
\* result).
C2_OutputKeptOnFailure ==
    (pc = "return" /\ run.capture_output /\ run.exception = "Exception"
        /\ written("out") # <<>>)
    => /\ result.kind = "returned"
       /\ ~result.success
       /\ result.stdout = written("out")
       /\ result.stderr # <<>>
       /\ result.warnings = validate_script_imports(Script(run.script_content))

\* C3: the capture buffers are empty whenever a capture-mode run starts its
\* script, and the stdout and stderr a capture-mode run returns hold only
\* text written during that run (or the trace of its own failure).
C3_NoStaleOutput ==
    /\ (pc = "exec" /\ run.capture_output /\ run.ip = 1)
          => (output_buffer = <<>> /\ error_buffer = <<>>)
    /\ (pc = "return" /\ run.capture_output)
          => /\ Range(result.stdout) \subseteq Range(written("out"))
             /\ \/ result.stderr = TRACE
                \/ Range(result.stderr) \subseteq Range(written("err"))

\* C4: whenever no script body is executing (before a run, at the prompt,
\* at the error alert, after a run that returned or let an exception
\* through) sys.stdout and sys.stderr are bound to the original streams.
C4_SinksRestored ==
    pc \in {"new", "idle", "prompt", "alert", "return", "escaped"}
        => (sys_stdout = "orig" /\ sys_stderr = "orig")

\* a capture-mode run in which the script raised has ended
C4_Witness ==
    /\ pc \in {"return", "escaped"}
    /\ run.capture_output
    /\ run.exception # "none"
    /\ run.ip >= 1
    /\ sys_stdout = "orig"

\* C5: a capture-mode run that completes normally returns as stdout exactly
\* the text its script wrote, in order, while the original stream received
\* nothing, and afterwards sys.stdout is the original stream again.
C5_CaptureRoundTrip ==
    (pc = "return" /\ run.capture_output /\ result.success)
    => /\ result.stdout = written("out")
       /\ console_out = <<>>
       /\ sys_stdout = "orig"

\* C6: when execute_script has ended, on any exit path, sys.path is what
\* it was when the call began (and already is while the error alert is
\* open).
C6_SearchPathRestored ==
    pc \in {"alert", "return", "escaped"} => sys_path = run.entry_path

\* a run that inserted the scripts directory and whose script appended an
\* entry of its own has ended
C6_Witness ==
    /\ pc = "return"
    /\ result.success
    /\ scripts_dir \notin Range(run.entry_path)
    /\ \E i \in 1..Len(Script(run.script_content).body) :
          Script(run.script_content).body[i].op = "path"
    /\ sys_path = run.entry_path

\* C7: an interactive call whose scan gives warnings goes on without the
\* prompt exactly when the catalog record found under the file's name has
\* validated = true and the path is in the acknowledgement set.
C7_PromptPolicy ==
    [][ (pc = "idle" /\ pc' # "idle" /\ ~run'.capture_output
            /\ run'.validation_warnings # <<>>)
        => ( (pc' # "prompt")
             <=> ( lookup_validated(run'.script_path)
                   /\ run'.script_path \in _validated_acknowledged ) ) ]_vars

\* an interactive run with warnings is executing without having prompted
C7_Witness ==
    /\ pc = "exec"
    /\ ~run.capture_output
    /\ run.validation_warnings # <<>>
    /\ ~run.prompted

\* C8: the acknowledgement set starts empty, and a path enters it only in
\* the step where the user answers yes to the prompt of an interactive run
\* of that path whose catalog lookup gave validated = true.
C8_AckOnlyByValidatedYes ==
    /\ _validated_acknowledged = {}
    /\ [][ /\ \A p \in _validated_acknowledged' \ _validated_acknowledged :
                /\ pc = "prompt"
                /\ run.script_path = p
                /\ ~run.capture_output
                /\ run.prompted
                /\ run.is_validated
                /\ run'.reply = "yes"
           /\ (pc = "idle" /\ pc' = "prompt")
                => run'.is_validated = lookup_validated(run'.script_path) ]_vars

\* the user has answered yes and the path has been inserted
C8_Witness ==
    /\ pc = "exec"
    /\ run.reply = "yes"
    /\ run.script_path \in _validated_acknowledged

\* C9: no step removes a path from the acknowledgement set.
C9_AckOnlyGrows ==
    [][ _validated_acknowledged \subseteq _validated_acknowledged' ]_vars

\* an acknowledged path whose file has since been reloaded as not
\* validated, or dropped from the catalog
C9_Witness ==
    \E f \in Files :
        /\ Path(f) \in _validated_acknowledged
        /\ pc = "idle"
        /\ ~timer
        /\ (f \notin DOMAIN scripts \/ ~scripts[f].validated)

\* C10: the step in which the user answers no ends the call with result
\* false and changes neither the execution position, the namespace, the
\* streams, the buffers, sys.path nor the acknowledgement set.
C10_NoMeansNoExecution ==
    [][ (pc = "prompt" /\ run'.reply = "no")
        => /\ pc' = "return"
           /\ result'.kind = "returned"
           /\ ~result'.success
           /\ run'.ip = 0
           /\ ~run'.namespace
           /\ UNCHANGED << sys_path, _validated_acknowledged, output_buffer,
                           error_buffer, console_out, sys_stdout, sys_stderr >> ]_vars

\* the user has answered no and the call has returned
C10_Witness ==
    /\ pc = "return"
    /\ run.reply = "no"
    /\ ~result.success

\* a menu, toolbar or dialog button has called execute_script
call_starts == pc = "idle" /\ pc' # "idle"

\* C11: a capture-mode run never shows the confirmation prompt, leaves the
\* acknowledgement set as it is from its call to its return, and the result
\* it returns carries the warnings of the scan of the text it read from the
\* file at the call, whether or not the script is validated and its path
\* acknowledged.
C11_CaptureModeFrame ==
    [][/\ (call_starts /\ run'.capture_output) => pc' # "prompt"
       /\ (run.capture_output \/ run'.capture_output)
             => _validated_acknowledged' = _validated_acknowledged
       /\ (call_starts /\ run'.capture_output /\ run'.script_content # NoFile)
             => /\ run'.script_content = disk[basename(run'.script_path)]
                /\ run'.validation_warnings =
                      validate_script_imports(Script(run'.script_content))
       /\ (pc' = "return" /\ run'.capture_output /\ run'.script_content # NoFile)
             => result'.warnings =
                   validate_script_imports(Script(run'.script_content))]_vars

\* a capture-mode run of a validated, acknowledged script with risky calls
\* has returned its warnings
C11_Witness ==
    /\ pc = "return"
    /\ run.capture_output
    /\ run.script_path \in _validated_acknowledged
    /\ lookup_validated(run.script_path)
    /\ ~run.prompted
    /\ result.warnings # <<>>

\* what load_scripts builds from a directory content d: a record for every
\* name of the listing that is a candidate and whose text reads and compiles
catalog(d) ==
    [f \in {g \in AllNames : /\ d[g] # NoFile
                             /\ endswith_py(g)
                             /\ ~startswith_dunder(g)
                             /\ Script(d[g]).readable
                             /\ Script(d[g]).syntax_ok} |-> get_script_info(d, f)]

\* C16: no handler that reads the catalog runs while a reload is under way:
\* a run starts only when no load_scripts call is in progress, nothing but
\* the turns of its loop happens between the clearing of the catalog and the
\* end of the loop, and the menu builder that follows the loop finds the
\* catalog complete, every entry built by this reload.
C16_AtomicReplacement ==
    [][/\ call_starts => loading = "no"
       /\ (loading # "no" /\ loading' = loading)
             => (run' = run /\ result' = result /\ pc' = pc /\ disk' = disk)
       /\ (loading # "no" /\ loading' = "no")
             => (todo = <<>> /\ scripts' = scripts /\ scripts = catalog(disk))]_vars

\* a reload stands between two files, the catalog partly refilled, while
\* the confirmation box of a run is open
C16_Witness ==
    /\ loading = "update_menu"
    /\ pc = "prompt"
    /\ todo # <<>>
    /\ scripts # NoScripts
    /\ scripts # obs.prev

\* C18: a run scans and executes the text the file holds when the run is
\* called, also when the catalog was built from an older text of the file
\* and the reload for the edit has not happened; the text and its warnings
\* stay those of the call through the prompt and the execution.
C18_RunsCurrentContent ==
    [][/\ (call_starts /\ run'.script_content # NoFile)
          => /\ run'.script_content = disk[basename(run'.script_path)]
             /\ run'.validation_warnings =
                   validate_script_imports(Script(disk[basename(run'.script_path)]))
       /\ (pc \in {"prompt", "exec"} /\ pc' \in {"prompt", "exec"})
             => /\ run'.script_content = run.script_content
                /\ run'.validation_warnings = run.validation_warnings]_vars

\* a script edited since the catalog was built, the reload still to come,
\* is executing with the warnings of the edited text
C18_Witness ==
    /\ pc = "exec"
    /\ run.ip > 1
    /\ obs.dirty
    /\ timer \/ events # {}
    /\ basename(run.script_path) \in DOMAIN scripts
    /\ scripts[basename(run.script_path)]
          # get_script_info(disk, basename(run.script_path))
    /\ run.script_content = disk[basename(run.script_path)]
    /\ run.validation_warnings # <<>>

\* C19: a run starts only with both sinks bound to the original streams,
\* and while a capture-mode run executes its script body every step is a
\* step of that body: no other call begins, no signal or timer is handled.
C19_OneCaptureAtATime ==
    [][/\ call_starts => (sys_stdout = "orig" /\ sys_stderr = "orig")
       /\ (pc = "exec" /\ run.capture_output)
             => /\ run'.script_path = run.script_path
                /\ run'.capture_output = run.capture_output
                /\ run'.script_content = run.script_content
                /\ run'.ip > run.ip \/ pc' # "exec"
                /\ UNCHANGED << fs, registry, watch, debounce >>]_vars

\* a capture-mode run executes its body while a watcher signal is queued
\* and the reload timer is due
C19_Witness ==
    /\ pc = "exec"
    /\ run.capture_output
    /\ sys_stdout = "output_buffer"
    /\ events # {}
    /\ timer
    /\ remaining = 0

\* the single-shot timer times out and update_menu runs
debounced_reload == timer /\ ~timer'

\* a load_scripts call over an existing directory comes to its end
load_completes == loading # "no" /\ loading' = "no"

\* the candidates of a directory content d that get_script_info gives up on
failures(d) ==
    {f \in AllNames : /\ d[f] # NoFile
                      /\ endswith_py(f)
                      /\ ~startswith_dunder(f)
                      /\ ~(Script(d[f]).readable /\ Script(d[f]).syntax_ok)}

\* C12: a debounced reload starts only after at least one scripts-changed
\* notification, not before reload_delay milliseconds have passed since the
\* last of them, and it uses up the whole burst and leaves the timer
\* inactive: the notifications of a burst share one reload.
C12_Debounce ==
    [][debounced_reload
          => /\ obs.burst >= 1
             /\ obs.since >= reload_delay
             /\ remaining = 0
             /\ obs'.burst = 0
             /\ ~timer']_vars

\* several notifications have come in, the last one reload_delay ago, and
\* their one reload is due
C12_Witness ==
    /\ timer
    /\ remaining = 0
    /\ obs.burst = 2
    /\ obs.since = reload_delay
    /\ events = {}
    /\ loop_runs

\* C14: a reload that follows another load with no write to the directory
\* in between ends with the catalog it began with: the same keys and the
\* same record for every key.
C14_ReloadIdempotent ==
    [][(load_completes /\ loading # "initGui" /\ ~obs.dirty)
          => scripts' = obs.prev]_vars

\* a second reload over an unchanged directory that holds a script and a
\* file that fails is about to end
C14_Witness ==
    /\ loading \in {"update_menu", "refresh_scripts"}
    /\ todo = <<>>
    /\ ~obs.dirty
    /\ obs.prev # NoScripts
    /\ failures(disk) # {}
    /\ scripts = obs.prev

\* C15: when load_scripts ends, every candidate that reads and compiles is
\* in the catalog and every candidate that does not is left out and counted
\* as an error, in whatever order the names were visited.
C15_FailuresSkipped ==
    [][load_completes
          => /\ \A f \in AllNames :
                   (disk[f] # NoFile /\ endswith_py(f) /\ ~startswith_dunder(f))
                   => (f \in DOMAIN scripts'
                         <=> (Script(disk[f]).readable /\ Script(disk[f]).syntax_ok))
             /\ failures(disk) \cap DOMAIN scripts' = {}
             /\ counts.error_count = Cardinality(failures(disk))
             /\ counts.loaded_count = Cardinality(DOMAIN scripts')]_vars

\* a reload that met one failing file and one good one is about to end
C15_Witness ==
    /\ loading # "no"
    /\ todo = <<>>
    /\ counts.error_count = 1
    /\ counts.loaded_count = 1
    /\ failures(disk) # {}

\* C17: once a load has ended and until the directory is written again,
\* the keys of the catalog are exactly the names in the directory that end
\* in .py, do not start with "__", and whose text reads and compiles; with
\* the directory gone the catalog is empty.
C17_CatalogMatchesDisk ==
    (loading = "no" /\ pc # "new" /\ ~obs.dirty)
    => /\ DOMAIN scripts =
             {f \in AllNames : /\ disk[f] # NoFile
                               /\ endswith_py(f)
                               /\ ~startswith_dunder(f)
                               /\ Script(disk[f]).readable
                               /\ Script(disk[f]).syntax_ok}
       /\ ~dir_exists => scripts = NoScripts

\* after an edit that made a script invalid the reload has left it out,
\* kept its sibling and passed over the package marker
C17_Witness ==
    /\ loading = "no"
    /\ pc = "idle"
    /\ ~obs.dirty
    /\ edits > 0
    /\ \E f \in Files : disk[f] = "broken" /\ f \notin DOMAIN scripts
    /\ DOMAIN scripts # {}
    /\ disk["__init__.py"] # NoFile

\* --------------------------------------------------------------- liveness
\* The event loop serves every queued signal and every due timer each time
\* control comes back to it, time passes, the loop of load_scripts and the
\* script bodies of the model are finite, and a handler that has its
\* result returns.
Fairness ==
    /\ WF_vars(initGui)
    /\ WF_vars(load_scripts_file)
    /\ WF_vars(load_scripts_end)
    /\ SF_vars(on_directory_changed)
    /\ \A f \in Files : SF_vars(on_file_changed(f))
    /\ SF_vars(tick)
    /\ SF_vars(update_menu)
    /\ WF_vars(script_step)
    /\ WF_vars(script_done)
    /\ WF_vars(caller_returns)

\* the directory holds a package marker, a text file and two scripts, one
\* of them ending in sys.exit()
LiveInit ==
    /\ Quiet
    /\ scan_in = <<>>
    /\ parse_in = <<>>
    /\ disk \in {d \in [AllNames -> Contents \cup {NoFile}] :
                    /\ \A o \in Others : d[o] = "hello"
                    /\ d["a.py"] = "risky"
                    /\ d["b.py"] = "trusted"}
    /\ sys_path = << "site-packages" >>

LiveSpec == LiveInit /\ [][Next]_vars /\ Fairness

\* C13: every scripts-changed notification is followed by the start of a
\* debounced reload, the program being still alive (a script that calls
\* sys.exit() ends the handler that ran it and the event loop with it).
C13_NotificationLeadsToReload ==
    (obs.burst >= 1) ~> (obs.burst = 0 \/ pc = "escaped")

\* a notification has come in and re-armed the timer after a debounced
\* reload for the same edit had already started
C13_Witness ==
    /\ obs.fired
    /\ obs.burst >= 1
    /\ timer
    /\ remaining = reload_delay
    /\ loading = "no"

\* ------------------------------------------------ the Risk Scanner alone
\* the risky calls the texts handed to the scanner are made of
Labels == {"os.system()", "exec()"}

\* the sequences of at most n elements of S
RECURSIVE UpTo(_, _)
UpTo(S, n) ==
    IF n = 0 THEN {<<>>}
    ELSE UpTo(S, n - 1) \cup {Append(s, x) : s \in {t \in UpTo(S, n - 1) : Len(t) = n - 1}, x \in S}

\* a line is a comment line or not and holds up to MaxCalls risky calls
ScanLines == {Ln(hash, FALSE, "", "", calls) : hash \in BOOLEAN, calls \in UpTo(Labels, MaxCalls)}

\* the texts of up to MaxLines lines
ScanTexts == UpTo(ScanLines, MaxLines)

ScanInit ==
    /\ Quiet
    /\ disk = [f \in AllNames |-> NoFile]
    /\ sys_path = << "site-packages" >>
    /\ scan_in \in ScanTexts
    /\ parse_in = <<>>

\* self.executor.validate_script_imports(script_content)
scan_text ==
    /\ scan_out' = validate_script_imports([lines |-> scan_in])
    /\ UNCHANGED << fs, registry, watch, debounce, streams, call, scan_in,
                    parse_in, parse_out, _validated_acknowledged, sys_path,
                    obs >>

ScanNext == scan_text

ScanSpec == ScanInit /\ [][ScanNext]_vars

\* C20: the scanner returns one warning for every pattern of RISKY_PATTERNS
\* that occurs on a line that is not a comment line, none for any other
\* pattern, each once however often and wherever the pattern occurs, and in
\* the order of RISKY_PATTERNS.
C20_OneWarningPerPattern ==
    scan_out # Unscanned =>
        /\ \A p \in 1..Len(RISKY_PATTERNS) :
              Cardinality({i \in 1..Len(scan_out) : scan_out[i] = RISKY_PATTERNS[p]})
              = IF \E n \in 1..Len(scan_in) :
                      /\ ~scan_in[n].hash
                      /\ RISKY_PATTERNS[p] \in Range(scan_in[n].calls)
                THEN 1 ELSE 0
        /\ \A i \in 1..Len(scan_out) : \E p \in 1..Len(RISKY_PATTERNS) :
              scan_out[i] = RISKY_PATTERNS[p]
        /\ \A i, j \in 1..Len(scan_out) :
              i < j => \E p, q \in 1..Len(RISKY_PATTERNS) :
                          /\ p < q
                          /\ scan_out[i] = RISKY_PATTERNS[p]
                          /\ scan_out[j] = RISKY_PATTERNS[q]

\* a text with exec() three times, the first two before os.system(), has
\* been scanned: os.system() is reported first and exec() once
C20_Witness ==
    /\ Len(scan_in) = 2
    /\ ~scan_in[1].hash
    /\ scan_in[1].calls = << "exec()", "exec()" >>
    /\ ~scan_in[2].hash
    /\ scan_in[2].calls = << "os.system()", "exec()" >>
    /\ scan_out = << "os.system()", "exec()" >>

\* C21: a pattern whose occurrences all stand on comment lines is not among
\* the warnings the scanner returns, and a text whose risky calls all stand
\* on comment lines passes line 1094 without a confirmation prompt in
\* either mode.
C21_CommentsNotScanned ==
    scan_out # Unscanned =>
        /\ \A label \in Labels :
              (/\ \E n \in 1..Len(scan_in) :
                     scan_in[n].hash /\ label \in Range(scan_in[n].calls)
               /\ \A n \in 1..Len(scan_in) :
                     label \in Range(scan_in[n].calls) => scan_in[n].hash)
              => label \notin Range(scan_out)
        /\ (\A n \in 1..Len(scan_in) : scan_in[n].calls # <<>> => scan_in[n].hash)
              => /\ scan_out = <<>>
                 /\ ~needs_confirmation(scan_out, FALSE)
                 /\ ~needs_confirmation(scan_out, TRUE)

\* a text with exec() on a comment line and os.system() on a code line has
\* been scanned: only os.system() is reported
C21_Witness ==
    /\ Len(scan_in) = 2
    /\ scan_in[1].hash
    /\ scan_in[1].calls = << "exec()", "exec()" >>
    /\ ~scan_in[2].hash
    /\ scan_in[2].calls = << "os.system()" >>
    /\ scan_out = << "os.system()" >>

\* --------------------------------------------- the Metadata Parser alone
\* the values a Validated or Toolbar declaration is written with
BoolValues == {"true", "True ", "YES", "1", "no"}

\* the lines of the texts handed to the parser: a line with or without a
\* triple quote, a declaration standing after the quote when the line has
\* both, and a comment line that declares Validated
ParseLines ==
    {Ln(FALSE, q, "", "", <<>>) : q \in BOOLEAN}
    \cup {Ln(FALSE, q, "Validated", v, <<>>) : q \in BOOLEAN, v \in BoolValues}
    \cup {Ln(FALSE, FALSE, "Toolbar", v, <<>>) : v \in {"true", "no"}}
    \cup {Ln(FALSE, FALSE, "ToolbarLabel", "Go", <<>>),
          Ln(FALSE, FALSE, "Description", "does things", <<>>),
          Ln(TRUE, FALSE, "Validated", "true", <<>>)}

\* the texts of up to n such lines
ParseTexts(n) == UpTo(ParseLines, n)

ParseInit ==
    /\ Quiet
    /\ disk = [f \in AllNames |-> NoFile]
    /\ sys_path = << "site-packages" >>
    /\ scan_in = <<>>
    /\ parse_in \in ParseTexts(MaxDocLines)

\* the docstring fields get_script_info reads from the text of a file
parse_text ==
    /\ parse_out' = docstring_fields([lines |-> parse_in])
    /\ UNCHANGED << fs, registry, watch, debounce, streams, call, scan_in,
                    scan_out, parse_in, _validated_acknowledged, sys_path,
                    obs >>

ParseNext == parse_text

ParseSpec == ParseInit /\ [][ParseNext]_vars

\* the lines of the first triple-quoted literal of a text: from the line of
\* the first triple quote up to the line of the second, what follows the
\* quote on the first line being inside and on the second outside
first_literal(ls) ==
    LET quotes == {i \in 1..Len(ls) : ls[i].quote}
    IN  IF quotes = {} THEN {}
        ELSE LET open == CHOOSE i \in quotes : \A k \in quotes : i <= k
                 rest == quotes \ {open}
             IN  IF rest = {} THEN open..Len(ls)
                 ELSE open..((CHOOSE i \in rest : \A k \in rest : i <= k) - 1)

\* the lines of the first literal that declare the field
declared(ls, field) == {j \in first_literal(ls) : ls[j].field = field}

\* C22: the fields are read from the first triple-quoted literal only: a
\* field that no line of that literal declares has its default in the
\* record, whatever stands in comments or code after the literal.
C22_FirstLiteralOnly ==
    parse_out # NoInfo =>
        /\ declared(parse_in, "Validated") = {} => ~parse_out.validated
        /\ declared(parse_in, "Toolbar") = {} => ~parse_out.toolbar
        /\ declared(parse_in, "Description") = {} =>
              parse_out.description = "PyQGIS Script"
        /\ declared(parse_in, "ToolbarLabel") = {} =>
              parse_out.toolbar_label = None

\* the raw values of a declaration that mean true
Truthy == {"true", "True ", "YES", "1"}

\* the value of the first declaration of the field in the first literal
first_declared(ls, field) ==
    ls[CHOOSE j \in declared(ls, field) : \A k \in declared(ls, field) : j <= k].value

\* C23: a boolean field is true exactly when the docstring declares it and
\* the declared value, trimmed and lower-cased, is true, yes or 1; a
\* docstring that declares Toolbar true and no ToolbarLabel gives toolbar
\* true with no label; and a text without any triple quote gives toolbar
\* false, no label, validated false and the description "PyQGIS Script".
C23_BooleanFields ==
    parse_out # NoInfo =>
        /\ parse_out.validated <=>
              /\ declared(parse_in, "Validated") # {}
              /\ first_declared(parse_in, "Validated") \in Truthy
        /\ parse_out.toolbar <=>
              /\ declared(parse_in, "Toolbar") # {}
              /\ first_declared(parse_in, "Toolbar") \in Truthy
        /\ (/\ declared(parse_in, "Toolbar") # {}
            /\ first_declared(parse_in, "Toolbar") \in Truthy
            /\ declared(parse_in, "ToolbarLabel") = {})
              => (parse_out.toolbar /\ parse_out.toolbar_label = None)
        /\ (\A j \in 1..Len(parse_in) : ~parse_in[j].quote) =>
              parse_out = [description |-> "PyQGIS Script",
                           toolbar |-> FALSE,
                           toolbar_label |-> None,
                           validated |-> FALSE]

\* C24: a capture-mode run opens neither the confirmation prompt nor the
\* error alert and reports a failure in its returned result only; an
\* interactive run that fails with an exception has opened the error alert
\* exactly once when it ends, whichever exception it was; an interactive
\* run that succeeds has opened no error alert and has shown the transient
\* status text.
C24_DialogsFollowMode ==
    /\ run.capture_output =>
          /\ pc \notin {"prompt", "alert"}
          /\ ~run.prompted
          /\ run.alerts = 0
          /\ run.status = <<>>
          /\ (pc = "return" /\ run.exception # "none") =>
                (result.kind = "returned" /\ ~result.success)
    /\ (~run.capture_output /\ run.exception # "none") =>
          /\ pc \in {"alert", "return", "escaped"}
          /\ run.alerts = 1
    /\ (~run.capture_output /\ pc = "return" /\ result.success) =>
          /\ run.alerts = 0
          /\ run.status = << "ok" >>

\* C25: when a load_scripts call ends, every script of the catalog whose
\* file exists is watched, also one whose watch the watcher had dropped
\* since the load before; and the handler of a file-changed event for a
\* file that exists leaves the file watched when it raises the
\* scripts-changed notification.
C25_WatchRestored ==
    [][/\ load_completes =>
             \A f \in DOMAIN scripts' : disk'[f] # NoFile => f \in watched'
       /\ \A f \in Files :
             (f \in events /\ f \notin events' /\ disk[f] # NoFile)
                => /\ f \in watched'
                   /\ timer'
                   /\ remaining' = reload_delay
                   /\ obs'.since = 0]_vars

\* a reload is about to visit a script of the catalog before, replaced on
\* disk since, that the watcher no longer watches
C25_Witness ==
    /\ loading = "update_menu"
    /\ todo # <<>>
    /\ Head(todo) \in DOMAIN obs.prev
    /\ Head(todo) \notin watched
    /\ disk[Head(todo)] = "risky"
    /\ edits = 1

\* C26: the flag the confirmation policy of an interactive run uses is the
\* one of the catalog record under the file's base name, false without a
\* record, whatever the text read for the run declares: when that record
\* says validated and the path is acknowledged, the run goes to the script
\* body without the prompt and executes the text the file holds now.
C26_CatalogFlagDecides ==
    [][(/\ call_starts
        /\ ~run'.capture_output
        /\ run'.script_content # NoFile
        /\ run'.validation_warnings # <<>>)
       => LET f == basename(run'.script_path)
              stored == f \in DOMAIN scripts /\ scripts[f].validated
          IN  /\ run'.is_validated = stored
              /\ (stored /\ run'.script_path \in _validated_acknowledged)
                    => /\ pc' = "exec"
                       /\ ~run'.prompted
                       /\ run'.script_content = disk[f]
              /\ ~stored => pc' = "prompt"]_vars

\* a validated and acknowledged script was edited on disk so that it no
\* longer declares Validated but still has risky calls; the reload has not
\* happened and an interactive run executes the edited text unprompted
C26_Witness ==
    /\ pc = "exec"
    /\ ~run.capture_output
    /\ ~run.prompted
    /\ run.validation_warnings # <<>>
    /\ run.script_path \in _validated_acknowledged
    /\ scripts[basename(run.script_path)].validated
    /\ run.script_content = "risky"
    /\ disk[basename(run.script_path)] = "risky"
    /\ ~get_script_info(disk, basename(run.script_path)).validated
    /\ edits = 1

====
